---- MODULE Spec2Model ----
(***************************************************************************)
(* The scheduled capture-and-report engine of image-emailer                *)
(* (src/src/email_images.py, class EmailImages).                           *)
(*                                                                         *)
(* Time is counted in ticks.  A schedule entry "HH:MM" is a minute of the  *)
(* day; a datetime is a number of ticks since midnight of day 0, and a     *)
(* minute holds TicksPerMinute ticks, so that an instant can lie exactly   *)
(* on a schedule entry (tick 0 of its minute) or strictly inside a minute. *)
(* Day 0 is a Thursday (as 1970-01-01 is), so days 2 and 3 are a weekend.  *)
(***************************************************************************)
EXTENDS Integers, Sequences, FiniteSets, TLC

\* ------------------------------------------------------------------ bounds
\* Ticks in one minute (the clock is finer than the schedule's minutes).
TicksPerMinute == 2
\* Minutes in one day (a scaled-down day).
MinutesPerDay == 3
\* The last instant of the scheduler runs that are explored.
MaxTime == 11
\* Loop tasks the process holds at once (running, cancelled or finished).
MaxTasks == 2
\* Longest capture list of the resolver's inputs.
MaxListLen == 2
\* Timestamps of the report day that the archives of the report runs draw from.
MaxStamps == 3

\* ------------------------------------------------------- program constants
\* date.weekday() < 5 is Monday..Friday.
FirstWeekendDay == 5
\* date.weekday() ranges over the 7 days of a week.
DaysPerWeek == 7
\* for attempt in range(3)
MaxAttempts == 3

\* ---------------------------------------------------------------- datetime
TicksPerDay == MinutesPerDay * TicksPerMinute

Minutes == 0 .. (MinutesPerDay - 1)

\* now.date(), and now.strftime("%Y%m%d"): the calendar day of an instant.
DateOf(t) == t \div TicksPerDay

\* The minute of the day of an instant (now.hour, now.minute).
MinuteOf(t) == (t % TicksPerDay) \div TicksPerMinute

\* date.weekday(): Monday is 0 and Sunday is 6; day 0 is a Thursday.
WeekdayOf(d) == (d + 3) % DaysPerWeek

\* datetime.combine(date, strptime(t, "%H:%M").time()): second 0 of minute m of day d.
Combine(d, m) == (d * MinutesPerDay + m) * TicksPerMinute

\* min() of a non-empty set of instants.
MinOf(S) == CHOOSE x \in S : \A y \in S : x <= y

\* The value that stands for capture_times_next[0] raising IndexError.
IndexError == -1

\* None, for last_capture_time, last_sent_date and the values not yet computed.
None == -2

VARIABLES
    clock,                  \* the latest value datetime.now() returned
    capture_times_weekday,  \* self.capture_times_weekday, minutes of the day
    capture_times_weekend,  \* self.capture_times_weekend
    send_time,              \* self.send_time, a minute of the day
    secondary_camera_name,  \* TRUE when a secondary camera is configured
    stack_images,           \* self.stack_images
    last_capture_time,      \* self.last_capture_time, an instant or None
    last_sent_date,         \* self.last_sent_date, a day or None
    report,                 \* self.report
    state_file,             \* the JSON state file: a record, or NoFile
    archive,                \* the image files on disk: records [ts, role]
    lock,                   \* the holders of the lock file
    tasks,                  \* the run_scheduled_loop tasks of this process
    capture_loop_task,      \* self.capture_loop_task: a task id, or 0 for None
    transports,             \* per day, the transport calls of scheduled sends
    query,                  \* the resolver call under study: its input and result
    sensor,                 \* "created" by new(), or "load_error" when __init__ raised
    served,                 \* the capture instants a capture event was executed for
    command                 \* the do_command call in flight

configVars == <<capture_times_weekday, capture_times_weekend, send_time,
                secondary_camera_name, stack_images>>
memoryVars == <<last_capture_time, last_sent_date, report>>
diskVars == <<state_file, archive>>
callVars == <<sensor, served, command>>
loopVars == <<clock, memoryVars, diskVars, lock, tasks, capture_loop_task, transports,
              callVars>>
vars == <<configVars, loopVars, query>>

\* ---------------------------------------------------- Clock/Schedule Resolver
\* _get_capture_times_for_day, mutated: Saturday takes the weekday list.
GetCaptureTimesForDaySaturdayWeekday(d) ==
    IF WeekdayOf(d) < FirstWeekendDay + 1
        THEN capture_times_weekday
        ELSE capture_times_weekend

\* _get_capture_times_for_day(date)
GetCaptureTimesForDay(d) ==
    IF WeekdayOf(d) < FirstWeekendDay
        THEN capture_times_weekday
        ELSE capture_times_weekend

\* [datetime.combine(day, strptime(t).time()) for t in capture_times]
CaptureDatetimes(d) ==
    LET times == GetCaptureTimesForDay(d)
    IN  [i \in 1 .. Len(times) |-> Combine(d, times[i])]

\* future_captures, mutated: no filter, the instants that have passed are kept.
FutureCapturesUnfiltered(now) ==
    LET all == CaptureDatetimes(DateOf(now)) \o CaptureDatetimes(DateOf(now) + 1)
    IN  {all[i] : i \in 1 .. Len(all)}

\* future_captures, mutated: dt >= now keeps the capture instant that is now.
FutureCapturesNotStrict(now) ==
    LET all == CaptureDatetimes(DateOf(now)) \o CaptureDatetimes(DateOf(now) + 1)
    IN  {all[i] : i \in {j \in 1 .. Len(all) : all[j] >= now}}

\* future_captures = [dt for dt in all_capture_datetimes if dt > now]
FutureCaptures(now) ==
    LET all == CaptureDatetimes(DateOf(now)) \o CaptureDatetimes(DateOf(now) + 1)
    IN  {all[i] : i \in {j \in 1 .. Len(all) : all[j] > now}}

\* _get_next_capture_time(now)
GetNextCaptureTime(now) ==
    LET future == FutureCaptures(now)
        day_after_tomorrow == DateOf(now) + 2
        capture_times_next == GetCaptureTimesForDay(day_after_tomorrow)
    IN  IF future # {}
            THEN MinOf(future)
            ELSE IF Len(capture_times_next) = 0
                     THEN IndexError
                     ELSE Combine(day_after_tomorrow, capture_times_next[1])

\* _get_next_send_time(now)
GetNextSendTime(now) ==
    LET send_time_dt == Combine(DateOf(now), send_time)
    IN  IF now > send_time_dt
            THEN send_time_dt + TicksPerDay
            ELSE send_time_dt

\* ------------------------------------------------------------ configuration
\* One configuration as reconfigure reads it from config.attributes.
Config(wd, we, st, sec, stk) ==
    [weekday |-> wd, weekend |-> we, send |-> st, secondary |-> sec, stack |-> stk]

\* The configurations the scheduler runs are explored with: a capture and a later
\* send, two sources stacked, a capture and a send on the same minute at midnight,
\* and a schedule with no weekend capture.
LoopConfigs ==
    { Config(<<1>>, <<1>>, MinutesPerDay - 1, FALSE, FALSE),
      Config(<<0>>, <<0>>, 0, TRUE, TRUE),
      Config(<<1>>, <<>>, MinutesPerDay - 1, FALSE, FALSE) }

\* reconfigure: the attributes copied into the fields of self (lines 147-166).
SetConfig(cfg) ==
    /\ capture_times_weekday' = cfg.weekday
    /\ capture_times_weekend' = cfg.weekend
    /\ send_time' = cfg.send
    /\ secondary_camera_name' = cfg.secondary
    /\ stack_images' = cfg.stack

\* ------------------------------------------------------------------- state
TaskIds == 1 .. MaxTasks

\* The lock holder that is a scheduler loop of another process.
Other == 0

\* No state file on disk.
NoFile ==
    [exists |-> FALSE, parses |-> FALSE, last_sent_date |-> None, last_capture_time |-> None]

\* json.dump(state, f) of _save_state: the record the state file holds.
StateRecord(lsd, lct) ==
    [exists |-> TRUE, parses |-> TRUE, last_sent_date |-> lsd, last_capture_time |-> lct]

\* The state file after open(self.state_file, "w") and before the text of
\* json.dump has reached it: empty, or a prefix of the JSON text.
Truncated ==
    [exists |-> TRUE, parses |-> FALSE, last_sent_date |-> None, last_capture_time |-> None]

\* No do_command call is in flight.
NoCommand == [pc |-> "idle", day |-> None, images_to_send |-> <<>>]

\* A task that was never created.  Its field capture is the way capture_image
\* ended in the iteration that has just run: "none" (not called), "primary_failed"
\* (line 324), "secondary_failed" (line 355) or "completed".
NoTask ==
    [pc |-> "unused", now |-> None, today_str |-> None, next_capture |-> None,
     next_send |-> None, attempt |-> 0, cancel |-> FALSE, exit |-> "none",
     capture |-> "none", images_to_send |-> <<>>]

\* asyncio.create_task(self.run_scheduled_loop()): scheduled, not yet run.
NewTask == [NoTask EXCEPT !.pc = "created"]

\* A finished task: its locals are gone, the way it ended is kept (the log line).
Finished(why) == [NoTask EXCEPT !.pc = "done", !.exit = why]

\* The points of run_scheduled_loop between lock.acquire and lock.release.
LockedRunning ==
    {"top", "sleep", "primary", "primary_retry", "secondary", "secondary_retry", "send"}

\* The awaits of the loop, where a CancelledError is delivered.
Awaiting == LockedRunning

\* CancelPending, mutated: a cancelled task goes on until its sleep has returned.
CancelPendingNever == FALSE

\* task.cancel() was called and the CancelledError is not delivered yet.  The event
\* loop runs its ready callbacks in order, so the cancelled task runs first.
CancelPending == \E t \in TaskIds : tasks[t].cancel

\* The loop instances between acquiring and releasing the lock, of any process.
RunningInstances ==
    {t \in TaskIds : tasks[t].pc \in LockedRunning} \cup (lock \cap {Other})

\* lock.acquire(blocking=False), mutated: the lock is granted although it is held.
TryAcquireAlways == TRUE

\* lock.acquire(blocking=False): granted when no instance holds the lock file.
TryAcquire == lock = {}

\* The task ids that are free: never used, or of a task that has finished.
FreshIds == {t \in TaskIds : tasks[t].pc \in {"unused", "done"}}

LoopInit ==
    /\ clock = 0
    /\ \E cfg \in LoopConfigs :
        /\ capture_times_weekday = cfg.weekday
        /\ capture_times_weekend = cfg.weekend
        /\ send_time = cfg.send
        /\ secondary_camera_name = cfg.secondary
        /\ stack_images = cfg.stack
    /\ last_capture_time = None
    /\ last_sent_date = None
    /\ report = "not_sent"
    /\ state_file = NoFile
    /\ archive = {}
    /\ lock \in {{}, {Other}}
    /\ tasks = [t \in TaskIds |-> IF t = 1 THEN NewTask ELSE NoTask]
    /\ capture_loop_task = 1
    /\ transports = [d \in 0 .. DateOf(MaxTime) |-> 0]
    /\ sensor = "created"
    /\ served = {}
    /\ command = NoCommand

NoQuery == [kind |-> "none", now |-> None, result |-> None]

\* ------------------------------------------------------------ Report Assembler
\* image_<timestamp>_<role>_EST.jpg in the directory of the timestamp's day.
ImageFile(ts, role) == [ts |-> ts, role |-> role]

\* _get_report_images, mutated: the files of the active role whatever their day.
GetReportImagesAnyDay(arch, day) ==
    {f \in arch : f.role = IF stack_images THEN "stacked" ELSE "primary"}

\* _get_report_images, mutated: the primary images whatever stack_images says.
GetReportImagesPrimaryOnly(arch, day) ==
    {f \in arch : DateOf(f.ts) = day /\ f.role = "primary"}

\* _get_report_images(daily_dir, today_str) on the files `arch`: the files of the
\* day's directory named image_<day>..., of the role the stacking mode selects.
GetReportImages(arch, day) ==
    {f \in arch : /\ DateOf(f.ts) = day
                  /\ f.role = IF stack_images THEN "stacked" ELSE "primary"}

\* Lines 488-497, mutated: the report is never found to be empty.
NoImagesNever(arch, day) == FALSE

\* Lines 488-497: the day has no directory, or no image of the active role (a
\* directory exists from the first capture attempt of the day on, with or without
\* files).
NoImages(arch, day) == GetReportImages(arch, day) = {}

\* The sort key of lines 499 and 604, x.split('_')[1] + x.split('_')[2]: the date
\* of the file name followed by its time of day.
SortKey(f) == <<DateOf(f.ts), f.ts % TicksPerDay>>

\* The order of two keys: the strings have a fixed width, so the date decides, and
\* between equal dates the time of day.
KeyLess(a, b) == a[1] < b[1] \/ (a[1] = b[1] /\ a[2] < b[2])

\* sorted(images_to_send, key=...): the files by increasing key.
RECURSIVE Sorted(_)
Sorted(S) ==
    IF S = {}
        THEN <<>>
        ELSE LET first == CHOOSE f \in S : \A g \in S : ~KeyLess(SortKey(g), SortKey(f))
             IN  <<first>> \o Sorted(S \ {first})

\* Lines 493-499 and 599-604: the images of the report of `day`, in sending order.
ReportImages(arch, day) == Sorted(GetReportImages(arch, day))

\* ------------------------------------------------------------- Scheduler Loop
\* The task t, with its record replaced by tk.
SetTask(t, tk) == tasks' = [tasks EXCEPT ![t] = tk]

\* Back at `while True`: now still holds the time read at the wake, the other
\* locals of the iteration are dead, and the log keeps the way its capture ended.
AtTop(tk) == [NewTask EXCEPT !.pc = "top", !.capture = tk.capture, !.now = tk.now]

\* Lines 274-282 for the task record tk, once the capture part of the iteration
\* has left last_capture_time lct, the state file sfile and the image files arch:
\* the send check, send_report up to its await, and the bookkeeping that follows.
SendCheck(t, tk, lct, sfile, arch) ==
    LET due == MinuteOf(tk.now) = send_time /\ last_sent_date # tk.today_str
        images_to_send == GetReportImages(arch, DateOf(tk.now))
    IN  /\ last_capture_time' = lct
        /\ archive' = arch
        /\ IF ~due
               THEN /\ SetTask(t, AtTop(tk))
                    /\ state_file' = sfile
                    /\ UNCHANGED <<last_sent_date, report, transports>>
               ELSE IF NoImages(arch, DateOf(tk.now))
                   THEN \* send_report returns "no_images"; lines 280-282 follow
                        /\ report' = "no_images"
                        /\ last_sent_date' = tk.today_str
                        /\ state_file' = StateRecord(tk.today_str, lct)
                        /\ SetTask(t, AtTop(tk))
                        /\ UNCHANGED transports
                   ELSE \* run_in_executor(_send_daily_report_sync) is awaited
                        /\ SetTask(t, [tk EXCEPT !.pc = "send", !.attempt = 0,
                                               !.images_to_send =
                                                   Sorted(images_to_send)])
                        /\ state_file' = sfile
                        /\ UNCHANGED <<last_sent_date, report, transports>>

\* capture_image has returned with the image files arch and last_capture_time lct,
\* having ended the way `how` says: _save_state() of line 270, then the send check.
FinishCapture(t, arch, lct, how) ==
    SendCheck(t, [tasks[t] EXCEPT !.capture = how], lct,
              StateRecord(last_sent_date, lct), arch)

\* The exit on a held lock, mutated: the state is saved before the return.
LockFailedExitSavingState(t) ==
    /\ SetTask(t, Finished("lock_failed"))
    /\ state_file' = StateRecord(last_sent_date, last_capture_time)
    /\ UNCHANGED <<lock, memoryVars, archive>>

\* Lines 229-231: the lock is held, the coroutine logs and returns.
LockFailedExit(t) ==
    /\ SetTask(t, Finished("lock_failed"))
    /\ UNCHANGED <<lock, memoryVars, diskVars>>

\* The task was created and runs for the first time: lines 228-233.
Start(t) ==
    /\ tasks[t].pc = "created"
    /\ ~CancelPending
    /\ IF TryAcquire
           THEN /\ lock' = lock \cup {t}
                /\ SetTask(t, AtTop(NewTask))
                /\ UNCHANGED <<memoryVars, diskVars>>
           ELSE LockFailedExit(t)
    /\ UNCHANGED <<configVars, clock, capture_loop_task, transports, query, callVars>>

\* The sleep target, min(next_capture, next_send).
SleepUntil(tk) == IF tk.next_capture < tk.next_send THEN tk.next_capture ELSE tk.next_send

\* Lines 235-249: the next instants are computed and the task goes to sleep; an
\* exception of _get_next_capture_time ends the loop (lines 284-288).
LoopTop(t) ==
    /\ tasks[t].pc = "top"
    /\ ~CancelPending
    /\ \E n \in (clock + 1) .. MaxTime :
        /\ clock' = n
        /\ IF GetNextCaptureTime(n) = IndexError
               THEN /\ SetTask(t, Finished("exception"))
                    /\ lock' = lock \ {t}
               ELSE /\ SetTask(t, [tasks[t] EXCEPT !.pc = "sleep",
                                                   !.now = n,
                                                   !.today_str = DateOf(n),
                                                   !.capture = "none",
                                                   !.next_capture = GetNextCaptureTime(n),
                                                   !.next_send = GetNextSendTime(n)])
                    /\ UNCHANGED lock
    /\ UNCHANGED <<configVars, memoryVars, diskVars, capture_loop_task, transports,
                   query, callVars>>

\* Lines 249-282: asyncio.sleep returns at or after its target; the capture check
\* (with the primary camera found among the dependencies, or not, line 258), and
\* without a capture the send check.
Wake(t) ==
    /\ tasks[t].pc = "sleep"
    /\ ~CancelPending
    /\ \E n \in (clock + 1) .. MaxTime :
        /\ n >= SleepUntil(tasks[t])
        /\ clock' = n
        /\ LET tk == [tasks[t] EXCEPT !.now = n]
           IN  IF n >= tk.next_capture
                    /\ (last_capture_time = None \/ n > last_capture_time)
                   THEN \/ /\ SetTask(t, [tk EXCEPT !.pc = "primary", !.attempt = 0])
                           /\ served' = served \cup {tk.next_capture}
                           /\ UNCHANGED <<memoryVars, diskVars, transports>>
                        \/ /\ SendCheck(t, tk, last_capture_time, state_file, archive)
                           /\ UNCHANGED served
                   ELSE /\ SendCheck(t, tk, last_capture_time, state_file, archive)
                        /\ UNCHANGED served
    /\ UNCHANGED <<configVars, lock, capture_loop_task, query, sensor, command>>

\* ------------------------------------------------------------ Capture Pipeline
\* Lines 302-318: the primary frame is fetched, cropped and saved; the capture goes
\* on with the secondary camera, or, without one (none configured, or the one
\* configured not found among the dependencies, line 267), ends at lines 415-416.
PrimaryOk(t) ==
    /\ tasks[t].pc = "primary"
    /\ ~CancelPending
    /\ LET arch == archive \cup {ImageFile(tasks[t].now, "primary")}
       IN  IF secondary_camera_name
               THEN \/ /\ SetTask(t, [tasks[t] EXCEPT !.pc = "secondary", !.attempt = 0])
                       /\ archive' = arch
                       /\ UNCHANGED <<memoryVars, state_file, transports>>
                    \/ FinishCapture(t, arch, tasks[t].now, "completed")
               ELSE FinishCapture(t, arch, tasks[t].now, "completed")
    /\ UNCHANGED <<configVars, clock, lock, capture_loop_task, query, callVars>>

\* Lines 323-325, mutated: no return after the last primary attempt, so that the
\* function runs on to line 415.
PrimaryExhaustedFallsThrough(t) ==
    FinishCapture(t, archive, tasks[t].now, "primary_failed")

\* Lines 323-325: the last primary attempt raised and capture_image returns.
PrimaryExhausted(t) ==
    FinishCapture(t, archive, last_capture_time, "primary_failed")

\* Lines 319-325: a primary attempt raised; after the last one capture_image returns.
PrimaryFail(t) ==
    /\ tasks[t].pc = "primary"
    /\ ~CancelPending
    /\ IF tasks[t].attempt < MaxAttempts - 1
           THEN /\ SetTask(t, [tasks[t] EXCEPT !.pc = "primary_retry"])
                /\ UNCHANGED <<memoryVars, diskVars, transports>>
           ELSE PrimaryExhausted(t)
    /\ UNCHANGED <<configVars, clock, lock, capture_loop_task, query, callVars>>

\* Line 322, mutated: the next primary attempt starts without being counted.
PrimaryRetryUncounted(t) ==
    /\ tasks[t].pc = "primary_retry"
    /\ ~CancelPending
    /\ SetTask(t, [tasks[t] EXCEPT !.pc = "primary"])
    /\ UNCHANGED <<configVars, clock, memoryVars, diskVars, lock, capture_loop_task,
                   transports, query, callVars>>

\* Line 322: asyncio.sleep(2) returns and the next primary attempt starts.
PrimaryRetry(t) ==
    /\ tasks[t].pc = "primary_retry"
    /\ ~CancelPending
    /\ SetTask(t, [tasks[t] EXCEPT !.pc = "primary", !.attempt = @ + 1])
    /\ UNCHANGED <<configVars, clock, memoryVars, diskVars, lock, capture_loop_task,
                   transports, query, callVars>>

\* Lines 333-349 and 357-416: the secondary frame is saved; with stack_images the
\* stacked image is built (or building it raises, line 412); the capture ends.
SecondaryOk(t) ==
    /\ tasks[t].pc = "secondary"
    /\ ~CancelPending
    /\ LET arch == archive \cup {ImageFile(tasks[t].now, "secondary")}
       IN  \E stacked \in {b \in BOOLEAN : b => stack_images} :
               FinishCapture(t,
                             IF stacked
                                 THEN arch \cup {ImageFile(tasks[t].now, "stacked")}
                                 ELSE arch,
                             tasks[t].now, "completed")
    /\ UNCHANGED <<configVars, clock, lock, capture_loop_task, query, callVars>>

\* Lines 354-355, mutated: a return after the last secondary attempt, as after the
\* last primary one, so that line 415 is not reached.
SecondaryExhaustedReturns(t) ==
    FinishCapture(t, archive, last_capture_time, "secondary_failed")

\* Lines 354-355, then 357-416: the last secondary attempt raised; nothing is
\* stacked (secondary_path is None) and line 415 records the capture.
SecondaryExhausted(t) ==
    FinishCapture(t, archive, tasks[t].now, "secondary_failed")

\* Lines 350-355: a secondary attempt raised; after the last one the capture ends
\* with the primary image alone.
SecondaryFail(t) ==
    /\ tasks[t].pc = "secondary"
    /\ ~CancelPending
    /\ IF tasks[t].attempt < MaxAttempts - 1
           THEN /\ SetTask(t, [tasks[t] EXCEPT !.pc = "secondary_retry"])
                /\ UNCHANGED <<memoryVars, diskVars, transports>>
           ELSE SecondaryExhausted(t)
    /\ UNCHANGED <<configVars, clock, lock, capture_loop_task, query, callVars>>

\* Line 353: asyncio.sleep(2) returns and the next secondary attempt starts.
SecondaryRetry(t) ==
    /\ tasks[t].pc = "secondary_retry"
    /\ ~CancelPending
    /\ SetTask(t, [tasks[t] EXCEPT !.pc = "secondary", !.attempt = @ + 1])
    /\ UNCHANGED <<configVars, clock, memoryVars, diskVars, lock, capture_loop_task,
                   transports, query, callVars>>

\* ------------------------------------------------------------------ the send
\* smtp.send_message of _send_daily_report_sync (lines 582-585) has been called
\* with the report of the day of `now`.
TransportCalled(now) == transports' = [transports EXCEPT ![DateOf(now)] = @ + 1]

\* Lines 506-510, then 280-282: the transport returned; send_report records the
\* report's day, and the loop then records the day the iteration began on.
SendOk(t) ==
    /\ tasks[t].pc = "send"
    /\ ~CancelPending
    /\ report' = "sent"
    /\ last_sent_date' = tasks[t].today_str
    /\ state_file' = StateRecord(tasks[t].today_str, last_capture_time)
    /\ SetTask(t, AtTop(tasks[t]))
    /\ TransportCalled(tasks[t].now)
    /\ UNCHANGED <<configVars, clock, last_capture_time, archive, lock,
                   capture_loop_task, query, callVars>>

\* Lines 511-513, then 280-282: the transport raised; the error is recorded and
\* the loop records the day as sent all the same.
SendFail(t) ==
    /\ tasks[t].pc = "send"
    /\ ~CancelPending
    /\ report' = "error"
    /\ last_sent_date' = tasks[t].today_str
    /\ state_file' = StateRecord(tasks[t].today_str, last_capture_time)
    /\ SetTask(t, AtTop(tasks[t]))
    /\ TransportCalled(tasks[t].now)
    /\ UNCHANGED <<configVars, clock, last_capture_time, archive, lock,
                   capture_loop_task, query, callVars>>

\* ------------------------------------------------------- cancellation, restart
\* The finally clause, mutated: the lock is kept when the loop is cancelled.
ReleaseOnCancelNever(t) == lock

\* Lines 286-288: lock.release() of the finally clause, on a CancelledError.
ReleaseOnCancel(t) == lock \ {t}

\* The CancelledError reaches the task at its await: a task that never ran ends
\* without running its body, a running one leaves through the finally clause.
\* The executor thread of a send that was awaited is not stopped by it: it goes
\* on to call the transport, and lines 506-509 are never run for it.
Cancelled(t) ==
    /\ tasks[t].cancel
    /\ tasks[t].pc \in Awaiting \cup {"created"}
    /\ SetTask(t, Finished("cancelled"))
    /\ lock' = IF tasks[t].pc = "created" THEN lock ELSE ReleaseOnCancel(t)
    /\ IF tasks[t].pc = "send"
           THEN TransportCalled(tasks[t].now)
           ELSE UNCHANGED transports
    /\ UNCHANGED <<configVars, clock, memoryVars, diskVars, capture_loop_task, query, callVars>>

\* reconfigure (lines 145-177): the new configuration is stored, the running task
\* is cancelled and a new task is created.
Reconfigure(cfg) ==
    /\ sensor = "created"
    /\ ~CancelPending
    /\ FreshIds # {}
    /\ SetConfig(cfg)
    /\ LET new == MinOf(FreshIds)
           old == capture_loop_task
       IN  /\ tasks' = [t \in TaskIds |->
                           IF t = new THEN NewTask
                           ELSE IF t = old /\ tasks[t].pc \notin {"done", "unused"}
                               THEN [tasks[t] EXCEPT !.cancel = TRUE]
                               ELSE tasks[t]]
           /\ capture_loop_task' = new
    /\ UNCHANGED <<clock, memoryVars, diskVars, lock, transports, query, callVars>>

\* _load_state (lines 118-132) on the state file `file`: json.load raises on a file
\* that is not a complete JSON text, and nothing catches it.
LoadRaises(file) == file.exists /\ ~file.parses

\* A new process is started with the state file `file` on disk: new() runs __init__
\* with _load_state, then reconfigure with the configuration cfg.  When _load_state
\* raises there is no sensor: no field is set and no task is created.  The tasks
\* and the commands of the old process are gone, and the operating system has
\* dropped its lock.
NewProcess(cfg, file) ==
    /\ lock' = lock \ TaskIds
    /\ report' = "not_sent"
    /\ command' = NoCommand
    /\ IF LoadRaises(file)
           THEN /\ sensor' = "load_error"
                /\ tasks' = [t \in TaskIds |-> NoTask]
                /\ capture_loop_task' = 0
                /\ last_capture_time' = None
                /\ last_sent_date' = None
                /\ UNCHANGED configVars
           ELSE /\ sensor' = "created"
                /\ SetConfig(cfg)
                /\ tasks' = [t \in TaskIds |-> IF t = 1 THEN NewTask ELSE NoTask]
                /\ capture_loop_task' = 1
                /\ last_capture_time' = file.last_capture_time
                /\ last_sent_date' = file.last_sent_date

\* The process ends (a crash, or restart_module) and a new one is started: new()
\* runs __init__ with _load_state (lines 84-132) and reconfigure.  The tasks and
\* the threads of the old process are gone and the operating system has dropped
\* its lock.
ProcessRestart(cfg) ==
    /\ NewProcess(cfg, state_file)
    /\ UNCHANGED <<clock, diskVars, transports, query, served>>

\* The process dies inside a _save_state call (lines 141-142) that a loop task has
\* reached, and a new process is started.  The call is the one at line 270 after
\* an image of the capture was written, or the one at line 509 after the transport
\* returned.  The file is left as it was (the crash came before open), truncated
\* (open "w" has emptied it and the text is not, or not all, written), or complete.
CrashInSave(t, cfg) ==
    /\ tasks[t].pc \in {"primary", "secondary", "send"}
    /\ ~CancelPending
    /\ LET tk == tasks[t]
           new == IF tk.pc = "send"
                      THEN StateRecord(DateOf(tk.now), last_capture_time)
                      ELSE StateRecord(last_sent_date, tk.now)
       IN  /\ IF tk.pc = "send"
                  THEN TransportCalled(tk.now) /\ UNCHANGED archive
                  ELSE /\ archive' = archive \cup {ImageFile(tk.now, tk.pc)}
                       /\ UNCHANGED transports
           /\ \E file \in {state_file, Truncated, new} :
                  /\ state_file' = file
                  /\ NewProcess(cfg, file)
    /\ UNCHANGED <<clock, query, served>>

\* The scheduler loop of another process acquires the lock file (line 229).
OtherAcquire ==
    /\ lock = {}
    /\ lock' = {Other}
    /\ UNCHANGED <<configVars, clock, memoryVars, diskVars, tasks, capture_loop_task,
                   transports, query, callVars>>

\* The scheduler loop of another process releases the lock file (line 287).
OtherRelease ==
    /\ Other \in lock
    /\ lock' = lock \ {Other}
    /\ UNCHANGED <<configVars, clock, memoryVars, diskVars, tasks, capture_loop_task,
                   transports, query, callVars>>

\* ------------------------------------------------------------------ do_command
\* do_command({"command": "send_email", "day": day}) up to its await (lines
\* 589-609): without images of the day it returns a status and changes nothing;
\* with images the report is handed to the executor thread.
DoCommandSendEmail(day) ==
    /\ sensor = "created"
    /\ command.pc = "idle"
    /\ IF GetReportImages(archive, day) = {}
           THEN UNCHANGED command
           ELSE command' = [pc |-> "sending", day |-> day,
                            images_to_send |-> ReportImages(archive, day)]
    /\ UNCHANGED <<configVars, clock, memoryVars, diskVars, lock, tasks,
                   capture_loop_task, transports, query, sensor, served>>

\* Lines 606-615: the transport returned; the send is recorded and saved.
ManualSendOk ==
    /\ command.pc = "sending"
    /\ report' = "sent"
    /\ last_sent_date' = command.day
    /\ state_file' = StateRecord(command.day, last_capture_time)
    /\ command' = NoCommand
    /\ UNCHANGED <<configVars, clock, last_capture_time, archive, lock, tasks,
                   capture_loop_task, transports, query, sensor, served>>

\* Lines 618-619: the transport raised; do_command returns the error as a status.
ManualSendFail ==
    /\ command.pc = "sending"
    /\ command' = NoCommand
    /\ UNCHANGED <<configVars, clock, memoryVars, diskVars, lock, tasks,
                   capture_loop_task, transports, query, sensor, served>>

Init == LoopInit /\ query = NoQuery

Next ==
    \/ \E t \in TaskIds : Start(t)
    \/ \E t \in TaskIds : LoopTop(t)
    \/ \E t \in TaskIds : Wake(t)
    \/ \E t \in TaskIds : PrimaryOk(t)
    \/ \E t \in TaskIds : PrimaryFail(t)
    \/ \E t \in TaskIds : PrimaryRetry(t)
    \/ \E t \in TaskIds : SecondaryOk(t)
    \/ \E t \in TaskIds : SecondaryFail(t)
    \/ \E t \in TaskIds : SecondaryRetry(t)
    \/ \E t \in TaskIds : SendOk(t)
    \/ \E t \in TaskIds : SendFail(t)
    \/ \E t \in TaskIds : Cancelled(t)
    \/ \E cfg \in LoopConfigs : Reconfigure(cfg)
    \/ \E cfg \in LoopConfigs : ProcessRestart(cfg)
    \/ \E t \in TaskIds, cfg \in LoopConfigs : CrashInSave(t, cfg)
    \/ OtherAcquire
    \/ OtherRelease

Spec == Init /\ [][Next]_vars

\* ------------------------------------------- the resolver taken on its own
\* The capture lists of the resolver's inputs: any order, repeats allowed
\* (validate_config checks the format of the entries only).
CaptureLists == UNION {[1 .. n -> Minutes] : n \in 0 .. MaxListLen}

\* The instants the resolver is asked about: one week, Thursday to Wednesday.
QueryTimes == 0 .. (DaysPerWeek * TicksPerDay - 1)

\* A scheduler that has not been configured: no task, nothing on disk.
Idle ==
    /\ clock = 0
    /\ secondary_camera_name = FALSE
    /\ stack_images = FALSE
    /\ last_capture_time = None
    /\ last_sent_date = None
    /\ report = "not_sent"
    /\ state_file = NoFile
    /\ archive = {}
    /\ lock = {}
    /\ tasks = [t \in TaskIds |-> NoTask]
    /\ capture_loop_task = 0
    /\ transports = [d \in 0 .. DateOf(MaxTime) |-> 0]
    /\ sensor = "created"
    /\ served = {}
    /\ command = NoCommand

ResolverInit ==
    /\ Idle
    /\ \/ /\ capture_times_weekday \in CaptureLists
          /\ capture_times_weekend \in CaptureLists
          /\ send_time = 0
          /\ \E now \in QueryTimes : query = [kind |-> "capture", now |-> now, result |-> None]
       \/ /\ capture_times_weekday = <<>>
          /\ capture_times_weekend = <<>>
          /\ send_time \in Minutes
          /\ \E now \in QueryTimes : query = [kind |-> "send", now |-> now, result |-> None]

\* self._get_next_capture_time(now) is called (as get_readings does, line 663).
CallNextCapture ==
    /\ query.kind = "capture"
    /\ query.result = None
    /\ query' = [query EXCEPT !.result = GetNextCaptureTime(query.now)]
    /\ UNCHANGED <<configVars, loopVars>>

\* self._get_next_send_time(now) is called (as get_readings does, line 653).
CallNextSend ==
    /\ query.kind = "send"
    /\ query.result = None
    /\ query' = [query EXCEPT !.result = GetNextSendTime(query.now)]
    /\ UNCHANGED <<configVars, loopVars>>

ResolverNext == CallNextCapture \/ CallNextSend

SpecResolver == ResolverInit /\ [][ResolverNext]_vars

\* ------------------------------------- the scheduler with manual sends
\* The days a send_email command names: every day of the run.
CommandDays == 0 .. DateOf(MaxTime)

ManualNext ==
    \/ \E t \in TaskIds : Start(t)
    \/ \E t \in TaskIds : LoopTop(t)
    \/ \E t \in TaskIds : Wake(t)
    \/ \E t \in TaskIds : PrimaryOk(t)
    \/ \E t \in TaskIds : PrimaryFail(t)
    \/ \E t \in TaskIds : PrimaryRetry(t)
    \/ \E t \in TaskIds : SecondaryOk(t)
    \/ \E t \in TaskIds : SecondaryFail(t)
    \/ \E t \in TaskIds : SecondaryRetry(t)
    \/ \E t \in TaskIds : SendOk(t)
    \/ \E t \in TaskIds : SendFail(t)
    \/ \E day \in CommandDays : DoCommandSendEmail(day)
    \/ ManualSendOk
    \/ ManualSendFail

SpecManual == Init /\ [][ManualNext]_vars

\* ------------------------------------------- the report taken on its own
\* The roles of the image files (the three suffixes, lines 31-33).
Roles == {"primary", "secondary", "stacked"}

\* The timestamps of the files: the last instant of day 0 and the first
\* MaxStamps instants of day 1.
ReportStamps == (TicksPerDay - 1) .. (TicksPerDay + MaxStamps - 1)

\* The files the sensor directory may hold.
ReportFiles == {ImageFile(ts, role) : ts \in ReportStamps, role \in Roles}

\* A sensor whose loop went to sleep after the last of the timestamps, the send
\* being the next event, with any set of the files on disk, in either mode.
ReportInit ==
    /\ clock = TicksPerDay + MaxStamps
    /\ capture_times_weekday = <<0>>
    /\ capture_times_weekend = <<0>>
    /\ send_time = MinuteOf(clock) + 1
    /\ secondary_camera_name = TRUE
    /\ stack_images \in BOOLEAN
    /\ last_capture_time = None
    /\ last_sent_date = None
    /\ report = "not_sent"
    /\ state_file = NoFile
    /\ archive \in SUBSET ReportFiles
    /\ lock = {1}
    /\ tasks = [t \in TaskIds |->
                   IF t = 1
                       THEN [NewTask EXCEPT !.pc = "sleep",
                                            !.now = clock,
                                            !.today_str = DateOf(clock),
                                            !.next_capture = GetNextCaptureTime(clock),
                                            !.next_send = GetNextSendTime(clock)]
                       ELSE NoTask]
    /\ capture_loop_task = 1
    /\ transports = [d \in 0 .. DateOf(MaxTime) |-> 0]
    /\ sensor = "created"
    /\ served = {}
    /\ command = NoCommand
    /\ query = NoQuery

ReportNext ==
    \/ \E t \in TaskIds : Wake(t)
    \/ \E day \in 0 .. 2 : DoCommandSendEmail(day)

SpecReport == ReportInit /\ [][ReportNext]_vars

\* ------------------------------------------------ what a schedule asks for
\* The entries of a list.
Range(s) == {s[i] : i \in DOMAIN s}

\* The capture list of day d, read off the configuration: Monday (0) to Friday (4)
\* take the weekday list, Saturday (5) and Sunday (6) the weekend list.
ListOfDay(d) ==
    IF WeekdayOf(d) \in {0, 1, 2, 3, 4} THEN capture_times_weekday ELSE capture_times_weekend

\* Instant s is a scheduled capture instant: second 0 of a minute listed for its day.
IsCaptureInstant(s) ==
    /\ s % TicksPerMinute = 0
    /\ MinuteOf(s) \in Range(ListOfDay(DateOf(s)))

\* The scheduled capture instants strictly after now, up to the end of day `last`.
CaptureInstantsAfter(now, last) ==
    {s \in (now + 1) .. ((last + 1) * TicksPerDay - 1) : IsCaptureInstant(s)}

\* A capture call has returned (with a value or with IndexError).
CaptureReturned == query.kind = "capture" /\ query.result # None

\* A send call has returned.
SendReturned == query.kind = "send" /\ query.result # None

\* Instant s is a daily send instant: second 0 of the minute send_time names.
IsSendInstant(s) ==
    /\ s % TicksPerMinute = 0
    /\ (s % TicksPerDay) \div TicksPerMinute = send_time

\* ------------------------------------------------------------------ claims
\* C1: over any run of the scheduler (reconfigure cancelling and restarting the
\* loop, process restarts reloading the state file, no manual send_email), the
\* scheduled path calls the mail transport at most once for any calendar date.
C1_AtMostOneSendPerDate == \A d \in DOMAIN transports : transports[d] <= 1

\* C2: at every instant at most one scheduler loop instance of the sensor is
\* between acquiring and releasing the lock, also while reconfigure cancels the
\* running instance and creates its replacement.
C2_SingleActiveLoop == Cardinality(RunningInstances) <= 1

\* C2, its case: reconfigure has cancelled a running instance, which still holds
\* the lock, and has created the replacement.
C2_ReplacementCreated ==
    \E t, u \in TaskIds :
        /\ tasks[t].cancel
        /\ tasks[t].pc \in LockedRunning
        /\ t \in lock
        /\ tasks[u].pc = "created"

\* C3: an exception raised inside an iteration of the loop body does not end the
\* loop instance: only cancellation or a failed lock acquisition takes it to Stopped.
C3_LoopSurvivesException == \A t \in TaskIds : tasks[t].exit # "exception"

\* C4: a loop that starts while another instance holds the lock goes straight to
\* Stopped, and last_capture_time, last_sent_date, the state file and the image
\* archive are unchanged by that start.
C4_LockFailedStartChangesNothing ==
    [][\A t \in TaskIds :
          (/\ tasks[t].pc = "created"
           /\ ~CancelPending
           /\ lock # {}
           /\ tasks'[t].pc \in {"top", "done"})
          => (/\ tasks'[t] = Finished("lock_failed")
              /\ UNCHANGED <<last_capture_time, last_sent_date, state_file, archive, lock>>)]_vars

\* C4, its case: a loop has started on a held lock and has stopped, while the
\* sensor has a state file and images that the start could have touched.
C4_LockFailedReached ==
    \E t \in TaskIds :
        /\ tasks[t] = Finished("lock_failed")
        /\ Other \in lock
        /\ state_file.exists
        /\ archive # {}

\* C5: whenever a loop instance that acquired the lock has stopped (cancelled in a
\* sleep, a capture or a send, or ended by an exception), it no longer holds the
\* lock, so that a loop instance started afterwards acquires it.
C5_StoppedLoopHoldsNoLock ==
    \A t \in TaskIds : tasks[t].pc \notin LockedRunning => t \notin lock

\* C5, its case: an instance was cancelled and has stopped, and the instance
\* started after it holds the lock.
C5_LockReacquired ==
    \E t, u \in TaskIds :
        /\ tasks[t] = Finished("cancelled")
        /\ tasks[u].pc \in LockedRunning
        /\ lock = {u}

\* C6: for every now and every schedule, _get_next_capture_time(now) returns an
\* instant strictly greater than now.  (A schedule whose two lists are both empty
\* has no capture instant to return, and is left aside.)
C6_NextCaptureAfterNow ==
    (CaptureReturned /\ capture_times_weekday \o capture_times_weekend # <<>>)
        => (query.result # IndexError /\ query.result > query.now)

\* C7: for every now and every send time, _get_next_send_time(now) returns an
\* instant strictly greater than now, also when now is today's send instant.
C7_NextSendAfterNow == SendReturned => query.result > query.now

\* C8: the instant _get_next_capture_time returns has a time of day taken from the
\* weekday list when its date is Monday to Friday and from the weekend list when
\* it is Saturday or Sunday, also across the Friday/Saturday and Sunday/Monday
\* boundaries.
C8_ResultFromListOfItsDay ==
    (CaptureReturned /\ query.result # IndexError) => IsCaptureInstant(query.result)

\* C8, its case: now is a Friday, the result is the Saturday after it, and the two
\* lists have no entry in common.
C8_FridayToSaturday ==
    /\ CaptureReturned
    /\ query.result # IndexError
    /\ WeekdayOf(DateOf(query.now)) = 4
    /\ WeekdayOf(DateOf(query.result)) = 5
    /\ capture_times_weekday # <<>>
    /\ Range(capture_times_weekday) \cap Range(capture_times_weekend) = {}

\* C9: when a capture instant of now's date or of the following date is strictly
\* after now, _get_next_capture_time(now) is the earliest of those instants, so no
\* scheduled capture instant lies strictly between now and the result.
C9_EarliestOfTodayAndTomorrow ==
    LET near == CaptureInstantsAfter(query.now, DateOf(query.now) + 1)
    IN  (CaptureReturned /\ near # {})
            => (query.result \in near /\ \A s \in near : query.result <= s)

\* C9, its case: weekday list (minute 1, minute 2), now just after Monday's minute
\* 1, and the result is Monday's minute 2.
C9_MondayAfterFirstCapture ==
    /\ CaptureReturned
    /\ capture_times_weekday = <<1, 2>>
    /\ query.now = Combine(4, 1) + 1
    /\ query.result = Combine(4, 2)

\* C10: when no capture instant of now's date or of the following date is strictly
\* after now, _get_next_capture_time(now) returns the earliest scheduled capture
\* instant of the first later day that has one, whatever the order of that day's
\* list.
C10_EarliestOfFirstLaterDay ==
    LET near == CaptureInstantsAfter(query.now, DateOf(query.now) + 1)
        later == CaptureInstantsAfter(query.now, DateOf(query.now) + 1 + DaysPerWeek)
    IN  (CaptureReturned /\ near = {} /\ later # {}) => query.result = MinOf(later)

\* C11: in a capture event whose three primary fetch attempts all fail, the capture
\* step is skipped: no image file is written for the event, the secondary source is
\* not fetched, and last_capture_time keeps its value in memory and in the state
\* file.  (The step taken is the one that leaves the third attempt without a
\* primary image of the event.)
C11_PrimaryExhaustedSkipsCapture ==
    [][\A t \in TaskIds :
          (/\ tasks[t].pc = "primary"
           /\ tasks[t].attempt = MaxAttempts - 1
           /\ tasks'[t].pc \notin {"primary", "done", "created", "unused"}
           /\ ImageFile(tasks[t].now, "primary") \notin archive')
          => (/\ tasks'[t].pc \in {"top", "send"}
              /\ tasks'[t].capture = "primary_failed"
              /\ archive' = archive
              /\ last_capture_time' = last_capture_time
              /\ state_file'.last_capture_time = state_file.last_capture_time)]_vars

\* C11, its case: a capture event has ended after three failed primary attempts,
\* with a secondary camera configured and an earlier capture on record.
C11_CaptureSkipped ==
    \E t \in TaskIds :
        /\ tasks[t].capture = "primary_failed"
        /\ secondary_camera_name
        /\ last_capture_time # None
        /\ state_file.last_capture_time = last_capture_time
        /\ archive # {}

\* C12: in a capture event whose primary fetch succeeds and whose secondary
\* attempts all fail, the primary image is in the day's archive and
\* last_capture_time is the event's timestamp, in memory and in the state file:
\* the failure of the secondary neither aborts nor undoes the primary result.
C12_SecondaryExhaustedKeepsPrimary ==
    [][\A t \in TaskIds :
          (/\ tasks[t].pc = "secondary"
           /\ tasks[t].attempt = MaxAttempts - 1
           /\ tasks'[t].pc \notin {"secondary", "done", "created", "unused"}
           /\ ImageFile(tasks[t].now, "secondary") \notin archive')
          => (/\ tasks'[t].capture = "secondary_failed"
              /\ ImageFile(tasks[t].now, "primary") \in archive'
              /\ archive \subseteq archive'
              /\ last_capture_time' = tasks[t].now
              /\ state_file'.last_capture_time = tasks[t].now)]_vars

\* C12, its case: a capture event has ended after three failed secondary attempts,
\* and the archive holds its primary image and no secondary image of it.
C12_PrimaryKeptWithoutSecondary ==
    \E t \in TaskIds :
        /\ tasks[t].capture = "secondary_failed"
        /\ last_capture_time # None
        /\ ImageFile(last_capture_time, "primary") \in archive
        /\ ImageFile(last_capture_time, "secondary") \notin archive
        /\ state_file.last_capture_time = last_capture_time

\* C13: loading the persistent state from a state file that exists but is corrupt
\* yields the empty default state and raises no error: the sensor is created with
\* last_capture_time and last_sent_date unset, and its loop task is started.
C13_CorruptStateFileLoadsAsDefault ==
    (state_file.exists /\ ~state_file.parses)
        => (/\ sensor = "created"
            /\ last_capture_time = None
            /\ last_sent_date = None
            /\ capture_loop_task \in TaskIds)

\* C14: a process crash at any point of _save_state leaves the state file holding
\* the complete previous state or the complete new state, never an empty,
\* truncated or unparseable record.
C14_StateFileAlwaysComplete == state_file.exists => state_file.parses

\* The files of seq, as a set.
FilesOf(seq) == {seq[i] : i \in DOMAIN seq}

\* seq is the attachment list the claim asks for, for day D: exactly the archived
\* images of D of the active role, each once, by strictly increasing timestamp.
IsReportOf(seq, D) ==
    /\ FilesOf(seq) = {f \in archive : /\ f.ts \div TicksPerDay = D
                                       /\ stack_images => f.role = "stacked"
                                       /\ ~stack_images => f.role = "primary"}
    /\ \A i, j \in DOMAIN seq : i < j => seq[i].ts < seq[j].ts

\* C15: for a requested date D and the active mode, the attachment list of the
\* report (of a scheduled send, and of a send_email command) is exactly the
\* archived images of D whose role is stacked with stacking enabled and primary
\* with it disabled, in strictly increasing timestamp order.
C15_ReportIsImagesOfDayInOrder ==
    /\ command.pc = "sending" => IsReportOf(command.images_to_send, command.day)
    /\ \A t \in TaskIds :
           tasks[t].pc = "send"
               => IsReportOf(tasks[t].images_to_send, tasks[t].now \div TicksPerDay)

\* C15, its case: three timestamps of the day with a primary and a secondary image
\* each, an image of another day, stacking disabled, and a report of exactly the
\* three primary images.
C15_ThreeOfSix ==
    /\ ~stack_images
    /\ command.pc = "sending"
    /\ Len(command.images_to_send) = MaxStamps
    /\ \A i \in DOMAIN command.images_to_send :
           ImageFile(command.images_to_send[i].ts, "secondary") \in archive
    /\ \E f \in archive : f.role = "primary" /\ DateOf(f.ts) # command.day

\* C16: when the day's archive has no image of the active role (or no directory),
\* a scheduled send makes no transport call and records the status no_images; and
\* what a send that reached the transport records, on success and on failure, is
\* never that status.
C16_NoImagesIsItsOwnOutcome ==
    [][\A t \in TaskIds :
          LET now == IF tasks[t].pc = "sleep" THEN clock' ELSE tasks[t].now
              due == /\ (now % TicksPerDay) \div TicksPerMinute = send_time
                     /\ last_sent_date # tasks[t].today_str
              images == {f \in archive' : /\ f.ts \div TicksPerDay = now \div TicksPerDay
                                          /\ stack_images => f.role = "stacked"
                                          /\ ~stack_images => f.role = "primary"}
          IN  /\ (/\ tasks[t].pc \in {"sleep", "primary", "secondary"}
                  /\ tasks'[t].pc \in {"top", "send"}
                  /\ due
                  /\ images = {})
                 => (/\ tasks'[t].pc = "top"
                     /\ transports' = transports
                     /\ report' = "no_images")
              /\ (tasks[t].pc = "send" /\ tasks'[t].pc = "top")
                 => (report' \in {"sent", "error"} /\ report' # "no_images")]_vars

\* C16, its case: in stacking mode a scheduled send found primary images and no
\* stacked one, recorded no_images and called no transport.
C16_NoImagesRecorded ==
    /\ report = "no_images"
    /\ stack_images
    /\ \E f \in archive : f.role = "primary"
    /\ \A f \in archive : f.role # "stacked"
    /\ \A d \in DOMAIN transports : transports[d] = 0

\* C17: on every wake of the loop, if the current time is at or after the send
\* instant computed before the sleep and last_sent_date is not today's date, the
\* send is executed in that iteration (the report goes to the transport, or is
\* found empty), however late the wake is.  The wakes looked at are those on the
\* date of the send instant; `now` is the time read at the wake.
C17_OversleptSendIsExecuted ==
    [][\A t \in TaskIds :
          LET now == IF tasks[t].pc = "sleep" THEN clock' ELSE tasks[t].now
          IN  (/\ tasks[t].pc \in {"sleep", "primary", "secondary"}
               /\ tasks'[t].pc \in {"top", "send"}
               /\ now >= tasks[t].next_send
               /\ now \div TicksPerDay = tasks[t].next_send \div TicksPerDay
               /\ last_sent_date # now \div TicksPerDay)
              => \/ tasks'[t].pc = "send"
                 \/ report' = "no_images" /\ last_sent_date' = tasks[t].today_str]_vars

\* C18: no scheduled event is lost: a capture instant or a send instant that passes
\* while a loop instance is Locked-Running is followed by the execution of its
\* capture or send step, also when it passes while an earlier capture or send of
\* the loop is in progress.  The loop picks its next targets strictly after the
\* time it reads at the top of an iteration, so an instant that passed between the
\* wake of the iteration before and that read is never a target again: the claim
\* asks that there is no such instant.  The iterations looked at are those that
\* ran capture_image, whose fetches and retries take the time that passed.
C18_NoScheduledEventLost ==
    [][\A t \in TaskIds :
          (/\ tasks[t].pc = "top"
           /\ tasks[t].now # None
           /\ tasks[t].capture # "none"
           /\ tasks'[t].pc = "sleep")
          => \A s \in (tasks[t].now + 1) .. (clock' - 1) :
                 /\ ~IsCaptureInstant(s)
                 /\ ~IsSendInstant(s)
                 /\ tasks'[t].next_capture > s
                 /\ tasks'[t].next_send > s]_vars

\* C19: no scheduled capture instant is served twice: the capture events the
\* scheduler executes, in one loop instance, across a reconfigure restart and
\* across a process restart that reloads the persisted state, are executed for
\* different scheduled capture instants (an event is executed for the instant its
\* iteration slept for, next_capture).
C19_NoCaptureInstantServedTwice ==
    [][\A t \in TaskIds :
          (tasks[t].pc = "sleep" /\ tasks'[t].pc = "primary")
              => tasks[t].next_capture \notin served]_vars

\* C19, its case: capture events were executed for two instants, the second one
\* by the loop instance started after a reconfigure cancelled the first.
C19_TwoEventsAcrossRestart ==
    /\ Cardinality(served) >= 2
    /\ \E t, u \in TaskIds :
           /\ tasks[t].exit = "cancelled"
           /\ tasks[u].pc = "primary"
           /\ tasks[u].next_capture \in served
           /\ last_capture_time # None

\* C20: a send_email command for a date D updates last_sent_date only when D is
\* the current date: a manual resend for a date before today leaves last_sent_date
\* unchanged, in memory and in the state file.
C20_ManualSendOfPastDayKeepsLastSentDate ==
    [][(/\ command.pc = "sending"
        /\ command'.pc = "idle"
        /\ command.day < clock \div TicksPerDay)
       => (/\ last_sent_date' = last_sent_date
           /\ state_file'.last_sent_date = state_file.last_sent_date)]_vars

\* C21: a manual send_email command is serialized against the loop: the
\* command's transport call and its write of last_sent_date and the state file
\* are never in progress while a scheduled send of the loop is between its
\* transport call and its own write.
C21_ManualSendExcludesScheduledSend ==
    ~(/\ command.pc = "sending"
      /\ \E t \in TaskIds : tasks[t].pc = "send")

\* C22: when reconfigure has cancelled a loop instance that is suspended in its
\* sleep, the instance leaves the sleep at once: no step lets it go on to a capture
\* or a send, no step taken before it has stopped writes an image, calls the
\* transport, serves a capture instant or reads the clock, and the step that ends
\* it records the cancellation and releases the lock.
C22_CancelledSleepStopsAtOnce ==
    [][\A t \in TaskIds :
          (tasks[t].cancel /\ tasks[t].pc = "sleep")
              => /\ tasks'[t].pc \in {"sleep", "done", "created", "unused"}
                 /\ tasks'[t].pc = "done"
                        => tasks'[t] = Finished("cancelled") /\ t \notin lock'
                 /\ archive' = archive
                 /\ transports' = transports
                 /\ served' = served
                 /\ clock' = clock]_vars

\* C22, its case: an instance that holds the lock is cancelled while its sleep
\* still has time to run, and the replacement waits to start.
C22_CancelledWhileSleeping ==
    \E t, u \in TaskIds :
        /\ tasks[t].cancel
        /\ tasks[t].pc = "sleep"
        /\ clock < SleepUntil(tasks[t])
        /\ t \in lock
        /\ capture_loop_task = u
        /\ tasks[u].pc = "created"

\* ------------------------------------------------- reconfigure under fairness
\* One process of the sensor and the loop of another process.  The event loop
\* runs every ready callback: the first step of a created task and the delivery
\* of a CancelledError are taken once they stay possible.
ReconfigureNext ==
    \/ \E t \in TaskIds : Start(t)
    \/ \E t \in TaskIds : LoopTop(t)
    \/ \E t \in TaskIds : Wake(t)
    \/ \E t \in TaskIds : PrimaryOk(t)
    \/ \E t \in TaskIds : PrimaryFail(t)
    \/ \E t \in TaskIds : PrimaryRetry(t)
    \/ \E t \in TaskIds : SecondaryOk(t)
    \/ \E t \in TaskIds : SecondaryFail(t)
    \/ \E t \in TaskIds : SecondaryRetry(t)
    \/ \E t \in TaskIds : SendOk(t)
    \/ \E t \in TaskIds : SendFail(t)
    \/ \E t \in TaskIds : Cancelled(t)
    \/ \E cfg \in LoopConfigs : Reconfigure(cfg)
    \/ OtherAcquire
    \/ OtherRelease

SpecReconfigure ==
    /\ Init
    /\ [][ReconfigureNext]_vars
    /\ \A t \in TaskIds : WF_vars(Start(t)) /\ WF_vars(Cancelled(t))

C24_LastSentDateNotInFuture ==
    [][/\ last_sent_date' # last_sent_date
           => last_sent_date' \in 0 .. DateOf(clock')
       /\ state_file'.last_sent_date # state_file.last_sent_date
           => state_file'.last_sent_date \in 0 .. DateOf(clock')]_vars

\* C24, its case: no scheduled send has called the transport, and a manual send
\* of an earlier day than today has written last_sent_date.
C24_ManualSendOfEarlierDayRecorded ==
    /\ \A d \in DOMAIN transports : transports[d] = 0
    /\ report = "sent"
    /\ command.pc = "idle"
    /\ last_sent_date \in 0 .. DateOf(clock) - 1
    /\ state_file.last_sent_date = last_sent_date

\* validate_config (lines 47-82) on the schedule attributes: every entry of the two
\* capture lists and the send time must parse as HH:MM; the length of a list is
\* not examined.
ValidateConfig(weekday, weekend, send) ==
    /\ \A i \in DOMAIN weekday : weekday[i] \in Minutes
    /\ \A i \in DOMAIN weekend : weekend[i] \in Minutes
    /\ send \in Minutes

\* C25: with a configuration that validate_config accepts, a list of capture times
\* may be empty, and still no iteration of the loop raises while it computes its
\* next capture and send instants.
C25_AcceptedScheduleNeverRaises ==
    [][\A t \in TaskIds :
          (/\ tasks[t].pc = "top"
           /\ ValidateConfig(capture_times_weekday, capture_times_weekend, send_time))
              => tasks'[t].exit # "exception"]_vars

\* get_readings (lines 649-672) called when the clock reads `now`: the status of
\* the sensor with its next instants, or the IndexError that
\* _get_next_capture_time raises (line 663), which nothing catches.
GetReadings(now) ==
    IF GetNextCaptureTime(now) = IndexError
        THEN [raised |-> TRUE, report |-> "", last_sent_date |-> None,
              next_capture_time |-> None, next_send_time |-> None]
        ELSE [raised |-> FALSE, report |-> report, last_sent_date |-> last_sent_date,
              next_capture_time |-> GetNextCaptureTime(now),
              next_send_time |-> GetNextSendTime(now)]

\* C26: when the transport call of a scheduled send fails, no exception leaves
\* send_report: the loop instance goes on to its next iteration with the lock
\* held, the report status holds the error, and a status query made at any later
\* instant returns it.
C26_FailedSendIsReportedNotFatal ==
    [][\A t \in TaskIds :
          (/\ tasks[t].pc = "send"
           /\ ~tasks[t].cancel
           /\ tasks'[t].pc \notin {"send", "created", "unused"}
           /\ report' # "sent")
              => /\ tasks'[t].pc = "top"
                 /\ tasks'[t].exit = "none"
                 /\ t \in lock'
                 /\ report' = "error"
                 /\ \A n \in clock' + 1 .. MaxTime :
                       /\ ~GetReadings(n)'.raised
                       /\ GetReadings(n)'.report = "error"]_vars

\* C27: within one capture event each source is fetched at most MaxAttempts times.
\* The fetch in progress is attempt number attempt + 1 of its source; the first
\* fetch of the primary follows the wake and the first of the secondary follows
\* the saved primary image; every further fetch follows the pause after a failed
\* attempt of the same source in the same event, and a pause is entered only from a
\* fetch that saved nothing: no fetch follows a successful one, the primary is not
\* fetched again once the secondary is, and capture_image ends after at most
\* 2 * MaxAttempts fetches.
C27_AtMostThreeFetchesPerSource ==
    [][\A t \in TaskIds :
          LET old == tasks[t]
              new == tasks'[t]
          IN  /\ new.pc \in {"primary", "secondary"}
                     => new.attempt \in 0 .. MaxAttempts - 1
              /\ (new.pc = "primary" /\ old.pc # "primary")
                     => \/ old.pc = "sleep" /\ new.attempt = 0
                        \/ /\ old.pc = "primary_retry"
                           /\ new.attempt = old.attempt + 1
                           /\ new.now = old.now
              /\ (new.pc = "secondary" /\ old.pc # "secondary")
                     => \/ /\ old.pc = "primary"
                           /\ new.attempt = 0
                           /\ new.now = old.now
                           /\ ImageFile(new.now, "primary") \in archive'
                        \/ /\ old.pc = "secondary_retry"
                           /\ new.attempt = old.attempt + 1
                           /\ new.now = old.now
              /\ (new.pc = "primary_retry" /\ old.pc # "primary_retry")
                     => /\ old.pc = "primary"
                        /\ new.attempt = old.attempt
                        /\ new.attempt < MaxAttempts - 1
                        /\ archive' = archive
              /\ (new.pc = "secondary_retry" /\ old.pc # "secondary_retry")
                     => /\ old.pc = "secondary"
                        /\ new.attempt = old.attempt
                        /\ new.attempt < MaxAttempts - 1
                        /\ archive' = archive]_vars

\* C27, its case: the primary image of the event is saved and the last fetch the
\* secondary source is allowed is in progress.
C27_LastSecondaryFetch ==
    \E t \in TaskIds :
        /\ tasks[t].pc = "secondary"
        /\ tasks[t].attempt = MaxAttempts - 1
        /\ ImageFile(tasks[t].now, "primary") \in archive

\* C28: last_capture_time is set to t only after the primary image of t has been
\* written: whenever last_capture_time holds an instant, in memory or in the state
\* file, the archive holds the primary image of that instant, also when the
\* secondary fetch or the stacking failed.
C28_LastCaptureTimeHasPrimaryImage ==
    /\ last_capture_time # None
           => ImageFile(last_capture_time, "primary") \in archive
    /\ (state_file.exists /\ state_file.parses /\ state_file.last_capture_time # None)
           => ImageFile(state_file.last_capture_time, "primary") \in archive

\* C28, its case: with a secondary camera and stacking configured, a capture was
\* recorded for an instant of which the archive holds the primary image alone.
C28_RecordedWithPrimaryAlone ==
    /\ secondary_camera_name
    /\ stack_images
    /\ last_capture_time # None
    /\ ImageFile(last_capture_time, "primary") \in archive
    /\ ImageFile(last_capture_time, "secondary") \notin archive
    /\ ImageFile(last_capture_time, "stacked") \notin archive
    /\ \E t \in TaskIds : /\ tasks[t].capture = "secondary_failed"
                          /\ tasks[t].now = last_capture_time

\* C29: last_sent_date is advanced only by a send whose transport call succeeded:
\* the step of a scheduled send that ends in a transport error, or that finds no
\* images to send, leaves last_sent_date as it was, in memory and in the state file.
C29_FailedSendKeepsLastSentDate ==
    [][\A t \in TaskIds :
          (/\ tasks'[t].pc = "top"
           /\ \/ tasks[t].pc = "send" /\ report' = "error"
              \/ /\ tasks[t].pc \in {"sleep", "primary", "secondary"}
                 /\ report # "no_images"
                 /\ report' = "no_images")
              => /\ last_sent_date' = last_sent_date
                 /\ state_file'.last_sent_date = state_file.last_sent_date]_vars

\* C30: after a scheduled send that was executed at the wake instant t and whose
\* transport succeeded, the persisted last_sent_date is the calendar date of t,
\* also when the sleep began on the day before.
C30_PersistedDateIsDateOfWake ==
    [][\A t \in TaskIds :
          (/\ tasks[t].pc = "send"
           /\ tasks'[t].pc = "top"
           /\ report' = "sent")
              => /\ state_file'.last_sent_date = DateOf(tasks[t].now)
                 /\ last_sent_date' = DateOf(tasks[t].now)]_vars

====
